---- MODULE Spec2Model ----
(***************************************************************************)
(* Model of the notebook tools of jupyter_mcp_server/server.py.            *)
(*                                                                         *)
(* The shared notebook document (ydoc._ycells) is a sequence of cells.     *)
(* Every tool call is one action: it opens a notebook connection, checks   *)
(* its parameters against the current cells, mutates the cell array and    *)
(* returns a message.  A message is a sequence of tokens (text pieces and  *)
(* numbers), so that formatting an index into a message and parsing it     *)
(* back with the regular expression "index (\d+)" are two different        *)
(* computations.                                                           *)
(*                                                                         *)
(* Optional[T] values are sequences of length at most one: <<>> is None.   *)
(* A source string is a sequence of text pieces; the piece "\n" is a line  *)
(* break.                                                                  *)
(***************************************************************************)
EXTENDS Integers, Sequences, FiniteSets

\* ------------------------------------------------------------------ bounds
MaxCells == 3

\* ------------------------------------------------------------------ values
None == <<>>
Some(x) == <<x>>

\* Source texts offered as content to add_cell / edit_cell_source.
Contents == { <<"a", "\n", "b">>, <<"b">> }

\* cell_type arguments a caller may pass ("raw" is not accepted by add_cell).
CellTypeArgs == {"code", "markdown", "raw"}

\* Integer arguments a caller may pass as an index: below, inside, at and
\* beyond the end of the largest notebook.
IndexArgs == -1 .. (MaxCells + 1)

\* Optional[int] index arguments.
OptIndexArgs == {None} \cup {Some(i) : i \in IndexArgs}

\* ---------------------------------------------------------------- messages
Txt(s) == [s |-> s, n |-> <<>>]
Num(i) == [s |-> "", n |-> <<i>>]

\* "[Error" in message
HasError(msg) == \E i \in DOMAIN msg : msg[i].s = "[Error"

\* re.search(r"index (\d+)", message): the first place where the text
\* "index " is followed by decimal digits (so never by a minus sign).
IndexMatches(msg) ==
  { i \in 1 .. (Len(msg) - 1) :
      /\ msg[i].s = "index "
      /\ msg[i + 1].n # <<>>
      /\ msg[i + 1].n[1] >= 0 }

_parse_index_from_message(msg) ==
  IF IndexMatches(msg) = {}
  THEN None
  ELSE LET i == CHOOSE j \in IndexMatches(msg) : \A k \in IndexMatches(msg) : j <= k
       IN  Some(msg[i + 1].n[1])

\* str.capitalize() on the cell types the tools format.
Capitalize(t) ==
  CASE t = "code" -> "Code"
    [] t = "markdown" -> "Markdown"
    [] OTHER -> t

\* The ConnectionError text raised by notebook_connection.
ConnectFailedText(tool_name) ==
  <<Txt("Failed to connect/sync notebook for "), Txt(tool_name)>>

\* ------------------------------------------------------------------- cells
\* A cell of ydoc._ycells.  Markdown cells carry no outputs and no
\* execution count: both read as empty / None.
NewCodeCell(content) ==
  [cell_type |-> "code", source |-> content,
   outputs |-> <<>>, execution_count |-> None]

NewMarkdownCell(content) ==
  [cell_type |-> "markdown", source |-> content,
   outputs |-> <<>>, execution_count |-> None]

\* Variant: the new element goes behind position i, not before it.
ArrInsert_behind(arr, i, x) ==
  IF i >= Len(arr) THEN Append(arr, x)
  ELSE SubSeq(arr, 1, i + 1) \o <<x>> \o SubSeq(arr, i + 2, Len(arr))

\* ycells.insert(i, x) for 0 <= i <= len(ycells)
ArrInsert(arr, i, x) ==
  SubSeq(arr, 1, i) \o <<x>> \o SubSeq(arr, i + 1, Len(arr))

\* Variant: the cell after the given one is deleted.
ArrDelete_next(arr, i) ==
  SubSeq(arr, 1, i + 1) \o SubSeq(arr, i + 3, Len(arr))

\* del ycells[i] for 0 <= i < len(ycells)
ArrDelete(arr, i) ==
  SubSeq(arr, 1, i) \o SubSeq(arr, i + 2, Len(arr))

\* ycells[i] (0-based)
At(arr, i) == arr[i + 1]

\* What a tool call yields: the cells it leaves, the message it returns, the
\* cell indexes for which an execution request reached the kernel, and the
\* path on which the tool returned.  Outcome is a return from inside the
\* connection scope that has changed nothing.
Outcome(cs, msg) ==
  [cells |-> cs, ret |-> msg, dispatched |-> <<>>, path |-> "returned",
   restarts |-> 0]

\* A return before notebook_connection is entered.
Refused(cs, msg) == [Outcome(cs, msg) EXCEPT !.path = "refused"]

\* The return of the tool's except clause after notebook_connection raised
\* ConnectionError on entry.
Unconnected(cs, msg) == [Outcome(cs, msg) EXCEPT !.path = "unconnected"]

\* A return from inside the scope after the transaction has been committed.
Mutated(cs, msg) == [Outcome(cs, msg) EXCEPT !.path = "mutated"]

\* An exception raised inside the transaction: the changes made before it
\* are committed, the tool's except clause returns the message.
Raised(cs, msg) == [Outcome(cs, msg) EXCEPT !.path = "raised"]

\* ------------------------------------------------------------------- tools
\* Variant: a negative index is taken as the front of the notebook.
insert_index_negative_to_front(index, num_cells) ==
  IF index = None THEN num_cells
  ELSE IF index[1] > num_cells THEN num_cells
  ELSE IF index[1] < 0 THEN 0
  ELSE index[1]

\* insert_index = num_cells if index is None or not (0 <= index <= num_cells)
\*                else index
insert_index(index, num_cells) ==
  IF index = None \/ ~(0 <= index[1] /\ index[1] <= num_cells)
  THEN num_cells ELSE index[1]

\* Variant: the upper bound is inclusive.
CellIndexInBounds_inclusive(cell_index, num_cells) ==
  0 <= cell_index /\ cell_index <= num_cells

\* 0 <= cell_index < num_cells
CellIndexInBounds(cell_index, num_cells) ==
  0 <= cell_index /\ cell_index < num_cells

\* Variant: the cell type is not looked at.
IsCodeCell_unchecked(cell) == TRUE

\* ycells[cell_index].get("cell_type") == "code"
IsCodeCell(cell) == cell.cell_type = "code"

\* Array.insert(index, x) accepts an index up to the current length and
\* raises "Index out of range" beyond it.
InsertAccepted(arr, index) == index <= Len(arr)

\* Variant: the outputs and the execution count are reset with the source.
ReplaceSource_resetting(cell, text) ==
  [cell EXCEPT !.source = text, !.outputs = <<>>, !.execution_count = None]

\* The source of a cell replaced by new text; everything else of the cell is
\* kept.
ReplaceSource(cell, text) == [cell EXCEPT !.source = text]

\* add_cell(content, cell_type, index); conn: the connection was established.
add_cell(cs, content, cell_type, index, conn) ==
  IF cell_type \notin {"code", "markdown"}
  THEN Refused(cs, <<Txt("[Error"), Txt(": Invalid cell_type '"), Txt(cell_type),
                     Txt("'. Must be 'code' or 'markdown'.]")>>)
  ELSE IF ~conn
  THEN Unconnected(cs, <<Txt("[Error"), Txt(" adding "), Txt(cell_type), Txt(" cell: ")>>
                   \o ConnectFailedText("add_cell") \o <<Txt("]")>>)
  ELSE
    LET num_cells == Len(cs)
        at == insert_index(index, num_cells)
        new_cell == IF cell_type = "code" THEN NewCodeCell(content)
                                          ELSE NewMarkdownCell(content)
    IN  Mutated(ArrInsert(cs, at, new_cell),
                <<Txt(Capitalize(cell_type)), Txt(" cell added at "),
                  Txt("index "), Num(at), Txt(".")>>)


\* Source of the cell add_cell_create_clickzetta_session inserts (one fixed
\* text for a given config_file).
SessionSource == <<"session">>

\* add_cell_create_clickzetta_session(cell_type, index, config_file)
add_cell_create_clickzetta_session(cs, cell_type, index, conn) ==
  IF cell_type # "code"
  THEN Refused(cs, <<Txt("[Error"), Txt(": Invalid cell_type '"), Txt(cell_type),
                     Txt("'. Only 'code' is supported for this operation.]")>>)
  ELSE IF ~conn
  THEN Unconnected(cs, <<Txt("[Error"), Txt(" adding "), Txt(cell_type), Txt(" cell: ")>>
                   \o ConnectFailedText("add_cell_create_clickzetta_session")
                   \o <<Txt("]")>>)
  ELSE
    LET num_cells == Len(cs)
        at == insert_index(index, num_cells)
    IN  Mutated(ArrInsert(cs, at, NewCodeCell(SessionSource)),
                <<Txt(Capitalize(cell_type)), Txt(" cell added at "),
                  Txt("index "), Num(at), Txt(".")>>)

\* Variant: the index reported is the length after the append.
add_code_cell_on_bottom_reports_length(cs, cell_content, conn) ==
  IF ~conn
  THEN Unconnected(cs, <<Txt("[Error"), Txt(" adding code cell on bottom: ")>>
                   \o ConnectFailedText("add_code_cell_on_bottom") \o <<Txt("]")>>)
  ELSE Mutated(Append(cs, NewCodeCell(cell_content)),
               <<Txt("Code cell added at "), Txt("index "), Num(Len(cs) + 1),
                 Txt(".")>>)

\* add_code_cell_on_bottom(cell_content): notebook.add_code_cell appends the
\* cell and returns its index.
add_code_cell_on_bottom(cs, cell_content, conn) ==
  IF ~conn
  THEN Unconnected(cs, <<Txt("[Error"), Txt(" adding code cell on bottom: ")>>
                   \o ConnectFailedText("add_code_cell_on_bottom") \o <<Txt("]")>>)
  ELSE
    LET cell_index == Len(cs)
    IN  Mutated(Append(cs, NewCodeCell(cell_content)),
                <<Txt("Code cell added at "), Txt("index "), Num(cell_index),
                  Txt(".")>>)

\* "[Error: Cell index {cell_index} out of bounds (0-{num_cells-1})]"
CellIndexOutOfBounds(cell_index, num_cells) ==
  <<Txt("[Error"), Txt(": Cell "), Txt("index "), Num(cell_index),
    Txt(" out of bounds (0-"), Num(num_cells - 1), Txt(")]")>>

\* delete_cell(cell_index)
delete_cell(cs, cell_index, conn) ==
  IF ~conn
  THEN Unconnected(cs, <<Txt("[Error"), Txt(" deleting cell "), Num(cell_index), Txt(": ")>>
                   \o ConnectFailedText("delete_cell") \o <<Txt("]")>>)
  ELSE
    LET num_cells == Len(cs)
    IN  IF ~CellIndexInBounds(cell_index, num_cells)
        THEN Outcome(cs, CellIndexOutOfBounds(cell_index, num_cells))
        ELSE Mutated(ArrDelete(cs, cell_index),
                     <<Txt("Cell at "), Txt("index "), Num(cell_index),
                       Txt(" deleted.")>>)

\* move_cell(from_index, to_index).  The cell is deleted and then inserted
\* again inside one transaction.  Array.insert raises "Index out of range"
\* for an index beyond the current length; the transaction is committed with
\* the changes made so far.
move_cell(cs, from_index, to_index, conn) ==
  IF ~conn
  THEN Unconnected(cs, <<Txt("[Error"), Txt(" moving cell from "), Num(from_index),
                     Txt(" to "), Num(to_index), Txt(": ")>>
                   \o ConnectFailedText("move_cell") \o <<Txt("]")>>)
  ELSE
    LET num_cells == Len(cs)
    IN  IF ~CellIndexInBounds(from_index, num_cells)
        THEN Outcome(cs, <<Txt("[Error"), Txt(": from_"), Txt("index "),
                           Num(from_index), Txt(" out of bounds (0-"),
                           Num(num_cells - 1), Txt(")]")>>)
        ELSE IF ~(0 <= to_index /\ to_index <= num_cells)
        THEN Outcome(cs, <<Txt("[Error"), Txt(": to_"), Txt("index "),
                           Num(to_index), Txt(" out of bounds (0-"),
                           Num(num_cells), Txt(")]")>>)
        ELSE IF from_index = to_index
        THEN Outcome(cs, <<Txt("Cell is already at "), Txt("index "),
                           Num(from_index), Txt(".")>>)
        ELSE
          LET item_to_move == At(cs, from_index)
              deleted == ArrDelete(cs, from_index)
          IN  IF InsertAccepted(deleted, to_index)
              THEN Mutated(ArrInsert(deleted, to_index, item_to_move),
                           <<Txt("Cell moved from "), Txt("index "), Num(from_index),
                             Txt(" to "), Num(to_index), Txt(".")>>)
              ELSE Raised(deleted,
                           <<Txt("[Error"), Txt(" moving cell from "), Num(from_index),
                             Txt(" to "), Num(to_index),
                             Txt(": Index out of range]")>>)

\* edit_cell_source(cell_index, new_content)
edit_cell_source(cs, cell_index, new_content, conn) ==
  IF ~conn
  THEN Unconnected(cs, <<Txt("[Error"), Txt(" editing cell "), Num(cell_index), Txt(": ")>>
                   \o ConnectFailedText("edit_cell_source") \o <<Txt("]")>>)
  ELSE
    LET num_cells == Len(cs)
    IN  IF ~CellIndexInBounds(cell_index, num_cells)
        THEN Outcome(cs, CellIndexOutOfBounds(cell_index, num_cells))
        ELSE Mutated([cs EXCEPT ![cell_index + 1] = ReplaceSource(@, new_content)],
                     <<Txt("Source updated for cell at "), Txt("index "),
                       Num(cell_index), Txt(".")>>)

\* Variant: str.splitlines(), which drops the line breaks.
RECURSIVE splitlines_dropping_breaks(_)
splitlines_dropping_breaks(text) ==
  IF text = <<>>
  THEN <<>>
  ELSE LET breaks == { i \in DOMAIN text : text[i] = "\n" }
           k == IF breaks = {} THEN Len(text) + 1
                ELSE CHOOSE i \in breaks : \A j \in breaks : i <= j
       IN  <<SubSeq(text, 1, k - 1)>>
           \o splitlines_dropping_breaks(SubSeq(text, k + 1, Len(text)))

\* str.splitlines(True) on a text whose only line break is "\n": every line
\* keeps its line break.
RECURSIVE splitlines(_)
splitlines(text) ==
  IF text = <<>>
  THEN <<>>
  ELSE LET breaks == { i \in DOMAIN text : text[i] = "\n" }
           k == IF breaks = {} THEN Len(text)
                ELSE CHOOSE i \in breaks : \A j \in breaks : i <= j
       IN  <<SubSeq(text, 1, k)>> \o splitlines(SubSeq(text, k + 1, Len(text)))

\* "".join(lines)
RECURSIVE join(_)
join(lines) ==
  IF lines = <<>> THEN <<>> ELSE Head(lines) \o join(Tail(lines))

\* split_cell(cell_index, line_number)
split_cell(cs, cell_index, line_number, conn) ==
  IF line_number < 1
  THEN Refused(cs, <<Txt("[Error"), Txt(": line_number must be 1 or greater]")>>)
  ELSE IF ~conn
  THEN Unconnected(cs, <<Txt("[Error"), Txt(" splitting cell "), Num(cell_index), Txt(": ")>>
                   \o ConnectFailedText("split_cell") \o <<Txt("]")>>)
  ELSE
    LET num_cells == Len(cs)
    IN  IF ~CellIndexInBounds(cell_index, num_cells)
        THEN Outcome(cs, CellIndexOutOfBounds(cell_index, num_cells))
        ELSE
          LET cell_data_read == At(cs, cell_index)
              original_source == cell_data_read.source
              original_cell_type == cell_data_read.cell_type
              source_lines == splitlines(original_source)
          IN  IF ~(1 <= line_number /\ line_number <= Len(source_lines) + 1)
              THEN Outcome(cs, <<Txt("[Error"), Txt(": Line number "), Num(line_number),
                                 Txt(" out of range (1-"),
                                 Num(Len(source_lines) + 1), Txt(")]")>>)
              ELSE
                LET source_part1 == join(SubSeq(source_lines, 1, line_number - 1))
                    source_part2 ==
                      join(SubSeq(source_lines, line_number, Len(source_lines)))
                    new_cell_index == cell_index + 1
                    written ==
                      IF original_cell_type = "code"
                      THEN [cell_data_read EXCEPT !.source = source_part1,
                                                  !.outputs = <<>>,
                                                  !.execution_count = None]
                      ELSE [cell_data_read EXCEPT !.source = source_part1]
                    new_cell ==
                      IF original_cell_type = "code"
                      THEN NewCodeCell(source_part2)
                      ELSE [NewMarkdownCell(source_part2)
                              EXCEPT !.cell_type = original_cell_type]
                IN  Mutated(ArrInsert([cs EXCEPT ![cell_index + 1] = written],
                                      new_cell_index, new_cell),
                            <<Txt("Cell "), Num(cell_index), Txt(" split at line "),
                              Num(line_number), Txt(". New cell created at "),
                              Txt("index "), Num(new_cell_index), Txt(".")>>)

\* What the kernel writes into a cell it has run.
StreamOutput == [output_type |-> "stream", text |-> "out"]

\* extract_output(output)
extract_output(output) ==
  IF output.output_type = "stream" THEN output.text
  ELSE IF output.output_type = "error" THEN "Error: "
  ELSE "[Unknown output type]"

\* Variant: the tool goes on with whatever client the restart has produced.
kernel_check_unchecked(alive, restart_ok) ==
  [alive |-> TRUE, restarts |-> IF alive THEN 0 ELSE 1]

\* "if not kernel or not kernel.is_alive()": a client that is missing or not
\* alive is replaced by a new one, once; alive: the client the tool goes on
\* with is alive, restarts: the number of clients started.
kernel_check(alive, restart_ok) ==
  [alive |-> alive \/ restart_ok, restarts |-> IF alive THEN 0 ELSE 1]

\* execute_cell(cell_index).  alive: kernel.is_alive() on entry; restart_ok:
\* whether a restarted client comes up alive; dispatch_ok: whether
\* notebook.execute_cell returns (the kernel has then run the cell and written
\* its outputs) or raises.
execute_cell(cs, cell_index, alive, restart_ok, conn, dispatch_ok) ==
  LET checked == kernel_check(alive, restart_ok)
      answer(cs2, requests, path, msg) ==
        [cells |-> cs2, dispatched |-> requests, alive |-> checked.alive,
         path |-> path, restarts |-> checked.restarts, ret |-> msg]
  IN
  IF ~checked.alive
  THEN answer(cs, <<>>, "refused",
              <<Txt("[Error"), Txt(": Kernel client connection failed for cell "),
                Num(cell_index), Txt(".]")>>)
  ELSE IF ~conn
  THEN answer(cs, <<>>, "unconnected",
              <<Txt("[Error"), Txt(" preparing execution for cell "),
                Num(cell_index), Txt(": ")>>
              \o ConnectFailedText("execute_cell") \o <<Txt("]")>>)
  ELSE
    LET num_cells == Len(cs)
    IN  IF ~CellIndexInBounds(cell_index, num_cells)
        THEN answer(cs, <<>>, "returned",
                    CellIndexOutOfBounds(cell_index, num_cells))
        ELSE IF ~IsCodeCell(At(cs, cell_index))
        THEN answer(cs, <<>>, "returned",
                    <<Txt("[Error"), Txt(": Cell "), Txt("index "), Num(cell_index),
                      Txt(" is not a code cell]")>>)
        ELSE IF ~dispatch_ok
        THEN answer(cs, <<cell_index>>, "dispatched",
                    <<Txt("[Error"), Txt(" dispatching execution for cell "),
                      Num(cell_index), Txt(": ")>>)
        ELSE answer([cs EXCEPT ![cell_index + 1].outputs = <<StreamOutput>>,
                               ![cell_index + 1].execution_count = Some(1)],
                    <<cell_index>>, "dispatched",
                    <<Txt("Execution request sent for cell at "), Txt("index "),
                      Num(cell_index), Txt(".")>>)

\* get_cell_output(cell_index, wait_seconds); the answer keeps the extracted
\* texts as one token per output.
get_cell_output(cs, cell_index, conn) ==
  IF ~conn
  THEN Unconnected(cs, <<Txt("[Error"), Txt(" getting output for cell "),
                     Num(cell_index), Txt(": ")>>
                   \o ConnectFailedText("get_cell_output") \o <<Txt("]")>>)
  ELSE
    LET num_cells == Len(cs)
    IN  IF ~CellIndexInBounds(cell_index, num_cells)
        THEN Outcome(cs, CellIndexOutOfBounds(cell_index, num_cells))
        ELSE
          LET cell_data == At(cs, cell_index)
              outputs == cell_data.outputs
          IN  IF outputs # <<>>
              THEN Outcome(cs, [i \in DOMAIN outputs |->
                                  Txt(extract_output(outputs[i]))])
              ELSE IF cell_data.cell_type = "code"
              THEN IF cell_data.execution_count # None
                   THEN Outcome(cs, <<Txt("[Cell executed, but has no output]")>>)
                   ELSE Outcome(cs, <<Txt("[Code cell not executed or has no output]")>>)
              ELSE Outcome(cs, <<Txt("[Cannot get output from non-code cell]")>>)

\* ------------------------------------------------------------------- state
VARIABLES
  cells,        \* ydoc._ycells of the target notebook
  kernelAlive,  \* the global kernel client exists and is alive
  last,         \* the tool call being answered: its arguments, the cells before
                \* it, what it returned (op "none" between calls)
  run           \* the _run_temporary_code call in progress

vars == <<cells, kernelAlive, last, run>>

NoCall ==
  [op |-> "none", args |-> <<>>, pre |-> <<>>, ret |-> <<>>, dispatched |-> <<>>,
   path |-> "", restarts |-> 0]

Call(op, args, pre, out) ==
  [op |-> op, args |-> args, pre |-> pre, ret |-> out.ret,
   dispatched |-> out.dispatched, path |-> out.path,
   restarts |-> out.restarts]

NoRun ==
  [pc |-> "idle", tool |-> "", before |-> <<>>, cell_index |-> None,
   steps |-> <<>>, result |-> <<>>]

\* No tool call is being answered and no temporary-cell run is in progress.
Idle == last.op = "none" /\ run.pc = "idle"

Init ==
  /\ cells = <<>>
  /\ kernelAlive = TRUE
  /\ last = NoCall
  /\ run = NoRun

\* The answer of the last tool call has been delivered.
Respond ==
  /\ last.op # "none"
  /\ run.pc = "idle"
  /\ last' = NoCall
  /\ UNCHANGED <<cells, kernelAlive, run>>

\* The kernel client's connection is lost.
KernelDies ==
  /\ kernelAlive
  /\ kernelAlive' = FALSE
  /\ UNCHANGED <<cells, last, run>>

AddCell ==
  \E content \in Contents, cell_type \in CellTypeArgs, index \in OptIndexArgs,
     conn \in BOOLEAN :
    LET out == add_cell(cells, content, cell_type, index, conn)
    IN  /\ Idle
        /\ Len(out.cells) <= MaxCells
        /\ cells' = out.cells
        /\ last' = Call("add_cell",
                        [content |-> content, cell_type |-> cell_type,
                         index |-> index, conn |-> conn], cells, out)
        /\ UNCHANGED <<kernelAlive, run>>

AddSessionCell ==
  \E cell_type \in CellTypeArgs, index \in OptIndexArgs, conn \in BOOLEAN :
    LET out == add_cell_create_clickzetta_session(cells, cell_type, index, conn)
    IN  /\ Idle
        /\ Len(out.cells) <= MaxCells
        /\ cells' = out.cells
        /\ last' = Call("add_cell_create_clickzetta_session",
                        [cell_type |-> cell_type, index |-> index, conn |-> conn],
                        cells, out)
        /\ UNCHANGED <<kernelAlive, run>>

DeleteCell ==
  \E cell_index \in IndexArgs, conn \in BOOLEAN :
    LET out == delete_cell(cells, cell_index, conn)
    IN  /\ Idle
        /\ cells' = out.cells
        /\ last' = Call("delete_cell",
                        [cell_index |-> cell_index, conn |-> conn], cells, out)
        /\ UNCHANGED <<kernelAlive, run>>

MoveCell ==
  \E from_index \in IndexArgs, to_index \in IndexArgs, conn \in BOOLEAN :
    LET out == move_cell(cells, from_index, to_index, conn)
    IN  /\ Idle
        /\ cells' = out.cells
        /\ last' = Call("move_cell",
                        [from_index |-> from_index, to_index |-> to_index,
                         conn |-> conn], cells, out)
        /\ UNCHANGED <<kernelAlive, run>>

EditCellSource ==
  \E cell_index \in IndexArgs, new_content \in Contents, conn \in BOOLEAN :
    LET out == edit_cell_source(cells, cell_index, new_content, conn)
    IN  /\ Idle
        /\ cells' = out.cells
        /\ last' = Call("edit_cell_source",
                        [cell_index |-> cell_index, new_content |-> new_content,
                         conn |-> conn], cells, out)
        /\ UNCHANGED <<kernelAlive, run>>

\* line_number arguments: below 1, and up to beyond the last line + 1 of the
\* longest source.
LineArgs == 0 .. 4

SplitCell ==
  \E cell_index \in IndexArgs, line_number \in LineArgs, conn \in BOOLEAN :
    LET out == split_cell(cells, cell_index, line_number, conn)
    IN  /\ Idle
        /\ Len(out.cells) <= MaxCells
        /\ cells' = out.cells
        /\ last' = Call("split_cell",
                        [cell_index |-> cell_index, line_number |-> line_number,
                         conn |-> conn], cells, out)
        /\ UNCHANGED <<kernelAlive, run>>

ExecuteCell ==
  \E cell_index \in IndexArgs,
     restart_ok \in (IF kernelAlive THEN {TRUE} ELSE BOOLEAN),
     conn \in BOOLEAN, dispatch_ok \in BOOLEAN :
    LET out == execute_cell(cells, cell_index, kernelAlive, restart_ok, conn,
                            dispatch_ok)
    IN  /\ Idle
        /\ cells' = out.cells
        /\ kernelAlive' = out.alive
        /\ last' = Call("execute_cell",
                        [cell_index |-> cell_index, alive |-> kernelAlive,
                         restart_ok |-> restart_ok, conn |-> conn,
                         dispatch_ok |-> dispatch_ok], cells, out)
        /\ UNCHANGED run

\* The tools that insert, remove, reorder, rewrite and run cells of one
\* notebook, one call at a time, with a live kernel client.
Next ==
  \/ AddCell
  \/ AddSessionCell
  \/ DeleteCell
  \/ MoveCell
  \/ EditCellSource
  \/ ExecuteCell
  \/ Respond

Spec == Init /\ [][Next]_vars

\* A code cell the kernel has already run.
ExecutedCell ==
  [NewCodeCell(<<"a", "\n", "b">>) EXCEPT !.outputs = <<StreamOutput>>,
                                          !.execution_count = Some(1)]

\* The editing tools, split_cell included, on a notebook that is empty or
\* holds one executed cell.
InitEdit ==
  /\ cells \in { <<>>, <<ExecutedCell>> }
  /\ kernelAlive = TRUE
  /\ last = NoCall
  /\ run = NoRun

NextEdit ==
  \/ AddCell
  \/ DeleteCell
  \/ MoveCell
  \/ EditCellSource
  \/ SplitCell
  \/ Respond

SpecEdit == InitEdit /\ [][NextEdit]_vars

\* ------------------------------------------------- temporary-cell runs
GetCellOutput ==
  \E cell_index \in IndexArgs, conn \in BOOLEAN :
    LET out == get_cell_output(cells, cell_index, conn)
    IN  /\ Idle
        /\ cells' = out.cells
        /\ last' = Call("get_cell_output",
                        [cell_index |-> cell_index, conn |-> conn], cells, out)
        /\ UNCHANGED <<kernelAlive, run>>

\* The tools built on _run_temporary_code.
TempTools == {"get_kernel_variables", "install_package", "list_installed_packages"}

\* Package names a caller may pass to install_package.
PackageNames == { <<"n", "p">>, <<"n", ";", "p">>, <<>> }

\* c.isalnum() or c in '-_==.' over the characters of PackageNames
SafeChar(c) == c \in {"n", "p", "-", "_", "=", "."}

\* "".join(c for c in package_name if c.isalnum() or c in '-_==.')
safe_package_name(package_name) == SelectSeq(package_name, SafeChar)

\* code_content of the temporary cell of each tool
code_content(tool_name, package_name) ==
  CASE tool_name = "get_kernel_variables" -> <<"%whos">>
    [] tool_name = "install_package" ->
         <<"!python -m pip install ">> \o safe_package_name(package_name)
    [] OTHER -> <<"!python -m pip list">>

\* "[Error in {tool_name}: {e}]"
RunError(tool_name, text) ==
  <<Txt("[Error"), Txt(" in "), Txt(tool_name), Txt(": "), Txt(text), Txt("]")>>

\* Where _run_temporary_code goes after add_code_cell_on_bottom returned
\* add_result: on to execute_cell, or (no index parsed) out through the
\* handlers with nothing to clean up.
AfterAdd(add_result) ==
  IF _parse_index_from_message(add_result) = None THEN "done" ELSE "exec"

\* Variant: the output is read at once, without the wait.
AfterExecute_no_wait(exec_result) ==
  IF HasError(exec_result) THEN "cleanup" ELSE "read"

\* After execute_cell returned exec_result: on to the wait, or (an error
\* string) out through the handlers to the cleanup.
AfterExecute(exec_result) ==
  IF HasError(exec_result) THEN "cleanup" ELSE "wait"

\* After the wait: the output is read.
AfterWait == "read"

\* After get_cell_output returned: out through the finally block.
AfterRead == "cleanup"

\* install_package refuses a package name that sanitizing changes or empties.
InstallPackageRejected ==
  \E package_name \in PackageNames :
    /\ Idle
    /\ safe_package_name(package_name) = <<>>
         \/ safe_package_name(package_name) # package_name
    /\ last' = Call("install_package", [package_name |-> package_name], cells,
                    Refused(cells, <<Txt("[Error"), Txt(": Invalid package name]")>>))
    /\ UNCHANGED <<cells, kernelAlive, run>>

\* A tool enters _run_temporary_code and adds the temporary cell.
RunAdd ==
  \E tool_name \in TempTools, package_name \in PackageNames, conn \in BOOLEAN :
    LET code == code_content(tool_name, package_name)
        out == add_code_cell_on_bottom(cells, code, conn)
        cell_index == _parse_index_from_message(out.ret)
    IN  /\ Idle
        /\ tool_name = "install_package" =>
             /\ safe_package_name(package_name) # <<>>
             /\ safe_package_name(package_name) = package_name
        /\ tool_name # "install_package" => package_name = <<>>
        /\ Len(out.cells) <= MaxCells
        /\ cells' = out.cells
        /\ last' = Call("add_code_cell_on_bottom",
                        [cell_content |-> code, conn |-> conn], cells, out)
        /\ run' = [pc |-> AfterAdd(out.ret), tool |-> tool_name, before |-> cells,
                   cell_index |-> cell_index, steps |-> <<"add">>,
                   result |-> IF cell_index = None
                              THEN RunError(tool_name, "Failed to add temporary cell")
                              ELSE <<>>]
        /\ UNCHANGED kernelAlive

RunExecute ==
  \E restart_ok \in (IF kernelAlive THEN {TRUE} ELSE BOOLEAN),
     conn \in BOOLEAN, dispatch_ok \in BOOLEAN :
    LET out == execute_cell(cells, run.cell_index[1], kernelAlive, restart_ok,
                            conn, dispatch_ok)
    IN  /\ run.pc = "exec"
        /\ cells' = out.cells
        /\ kernelAlive' = out.alive
        /\ last' = Call("execute_cell",
                        [cell_index |-> run.cell_index[1], alive |-> kernelAlive,
                         restart_ok |-> restart_ok, conn |-> conn,
                         dispatch_ok |-> dispatch_ok], cells, out)
        /\ run' = [run EXCEPT
                     !.pc = AfterExecute(out.ret),
                     !.steps = Append(@, "execute"),
                     !.result = IF HasError(out.ret)
                                THEN RunError(run.tool, "Failed to start execution")
                                ELSE <<>>]

\* asyncio.sleep(wait_seconds)
RunWait ==
  /\ run.pc = "wait"
  /\ run' = [run EXCEPT !.pc = AfterWait, !.steps = Append(@, "wait")]
  /\ UNCHANGED <<cells, kernelAlive, last>>

RunRead ==
  \E conn \in BOOLEAN :
    LET out == get_cell_output(cells, run.cell_index[1], conn)
    IN  /\ run.pc = "read"
        /\ cells' = out.cells
        /\ last' = Call("get_cell_output",
                        [cell_index |-> run.cell_index[1], conn |-> conn], cells, out)
        /\ run' = [run EXCEPT !.pc = AfterRead, !.steps = Append(@, "read"),
                              !.result = out.ret]
        /\ UNCHANGED kernelAlive

\* The finally block: the cleanup delete of the temporary cell.
RunCleanup ==
  \E conn \in BOOLEAN :
    LET out == delete_cell(cells, run.cell_index[1], conn)
    IN  /\ run.pc = "cleanup"
        /\ cells' = out.cells
        /\ last' = Call("delete_cell",
                        [cell_index |-> run.cell_index[1], conn |-> conn], cells, out)
        /\ run' = [run EXCEPT !.pc = "done", !.steps = Append(@, "delete")]
        /\ UNCHANGED kernelAlive

\* _run_temporary_code returns run.result to the caller of the tool.
RunReturn ==
  /\ run.pc = "done"
  /\ run' = NoRun
  /\ last' = NoCall
  /\ UNCHANGED <<cells, kernelAlive>>

\* Notebooks a temporary-cell run may find.
RunNotebooks ==
  { <<>>,
    <<NewMarkdownCell(<<"b">>)>>,
    <<ExecutedCell, NewMarkdownCell(<<"b">>)>> }

InitRun ==
  /\ cells \in RunNotebooks
  /\ kernelAlive = TRUE
  /\ last = NoCall
  /\ run = NoRun

\* Temporary-cell runs and the kernel tools, with no other writer on the
\* notebook and a kernel client that may die at any time.
NextRun ==
  \/ InstallPackageRejected
  \/ RunAdd
  \/ RunExecute
  \/ RunWait
  \/ RunRead
  \/ RunCleanup
  \/ RunReturn
  \/ ExecuteCell
  \/ GetCellOutput
  \/ KernelDies
  \/ Respond

SpecRun == InitRun /\ [][NextRun]_vars

\* ------------------------------------------------------ execute_all_cells
\* "Successfully sent execution requests for all {total_code_cells} code
\* cells found." unless request_error is set.
execute_all_cells_result(request_error, cells_requested, total_code_cells) ==
  IF request_error # None
  THEN <<Txt("Stopped sending requests due to error: "), Txt(request_error[1]),
         Txt(". Sent requests for "), Num(cells_requested), Txt("/"),
         Num(total_code_cells), Txt(" code cells.")>>
  ELSE <<Txt("Successfully sent execution requests for all "),
         Num(total_code_cells), Txt(" code cells found.")>>

\* Variant: every second cell is passed over.
enumerate_next_skipping(i) == i + 2

\* The index enumerate(ycells) yields after i.
enumerate_next(i) == i + 1

\* The call record of an execute_all_cells call; calls: one entry per nested
\* execute_cell call, in the order they were made.
AllCall(args, pre, out, calls) ==
  [op |-> "execute_all_cells", args |-> args, pre |-> pre, ret |-> out.ret,
   dispatched |-> out.dispatched, path |-> out.path, restarts |-> out.restarts,
   calls |-> calls]

\* execute_all_cells up to the first iteration of its loop: the kernel check,
\* then the notebook connection and the three counters.
ExecuteAllEnter ==
  \E restart_ok \in (IF kernelAlive THEN {TRUE} ELSE BOOLEAN), conn \in BOOLEAN :
    LET checked == kernel_check(kernelAlive, restart_ok)
        args == [alive |-> kernelAlive, restart_ok |-> restart_ok, conn |-> conn]
        refused ==
          [Refused(cells, <<Txt("[Error"),
                            Txt(": Kernel client connection failed. Cannot execute cells.]")>>)
             EXCEPT !.restarts = checked.restarts]
        unconnected ==
          [Unconnected(cells, <<Txt("[Error"), Txt(" in execute_all_cells: ")>>
                              \o ConnectFailedText("execute_all_cells")
                              \o <<Txt("]")>>)
             EXCEPT !.restarts = checked.restarts]
    IN  /\ Idle
        /\ kernelAlive' = checked.alive
        /\ UNCHANGED cells
        /\ IF ~checked.alive
           THEN last' = AllCall(args, cells, refused, <<>>) /\ UNCHANGED run
           ELSE IF ~conn
           THEN last' = AllCall(args, cells, unconnected, <<>>) /\ UNCHANGED run
           ELSE /\ run' = [pc |-> "all", tool |-> "execute_all_cells",
                           before |-> cells, cell_index |-> Some(0),
                           steps |-> <<>>, result |-> <<>>, args |-> args,
                           restarts |-> checked.restarts,
                           total_code_cells |-> 0, cells_requested |-> 0,
                           request_error |-> None, requests |-> <<>>,
                           calls |-> <<>>]
                /\ UNCHANGED last

\* One iteration of "for i, cell_data in enumerate(ycells)": a code cell is
\* counted and handed to execute_cell, whose answer is dropped; any other
\* cell is passed over.
ExecuteAllStep ==
  \E restart_ok \in (IF kernelAlive THEN {TRUE} ELSE BOOLEAN),
     conn \in BOOLEAN, dispatch_ok \in BOOLEAN :
    LET i == run.cell_index[1]
        out == execute_cell(cells, i, kernelAlive, restart_ok, conn, dispatch_ok)
    IN  /\ run.pc = "all"
        /\ i < Len(cells)
        /\ IF IsCodeCell(At(cells, i))
           THEN /\ cells' = out.cells
                /\ kernelAlive' = out.alive
                /\ run' = [run EXCEPT
                             !.cell_index = Some(enumerate_next(i)),
                             !.total_code_cells = @ + 1,
                             !.cells_requested = @ + 1,
                             !.requests = @ \o out.dispatched,
                             !.calls = Append(@, [cell_index |-> i,
                                                 alive |-> kernelAlive,
                                                 restart_ok |-> restart_ok,
                                                 path |-> out.path,
                                                 restarts |-> out.restarts,
                                                 dispatched |-> out.dispatched,
                                                 ret |-> out.ret])]
           ELSE /\ restart_ok /\ conn /\ dispatch_ok
                /\ run' = [run EXCEPT !.cell_index = Some(enumerate_next(i))]
                /\ UNCHANGED <<cells, kernelAlive>>
        /\ UNCHANGED last

\* The end of the loop: the connection scope is left and the result is
\* formatted.
ExecuteAllReturn ==
  /\ run.pc = "all"
  /\ run.cell_index[1] >= Len(cells)
  /\ last' = AllCall(run.args, run.before,
                     [Outcome(cells,
                              execute_all_cells_result(run.request_error,
                                                       run.cells_requested,
                                                       run.total_code_cells))
                        EXCEPT !.dispatched = run.requests,
                               !.restarts = run.restarts],
                     run.calls)
  /\ run' = NoRun
  /\ UNCHANGED <<cells, kernelAlive>>

\* Notebooks of up to MaxCells cells, each a code cell or a markdown cell.
AllNotebooks ==
  UNION { [1 .. n -> {NewCodeCell(<<"b">>), NewMarkdownCell(<<"b">>)}] :
          n \in 0 .. MaxCells }

InitAll ==
  /\ cells \in AllNotebooks
  /\ kernelAlive \in BOOLEAN
  /\ last = NoCall
  /\ run = NoRun

\* execute_cell and execute_all_cells on a notebook nobody else edits, with a
\* kernel client that can be lost at any time.
NextAll ==
  \/ ExecuteCell
  \/ ExecuteAllEnter
  \/ ExecuteAllStep
  \/ ExecuteAllReturn
  \/ KernelDies
  \/ Respond

SpecAll == InitAll /\ [][NextAll]_vars

\* ----------------------------------------------------- notebook_connection
\* get_all_cells(): index, type, source and execution count of every cell.
get_all_cells(cs, conn) ==
  IF ~conn
  THEN Unconnected(cs, <<Txt("Error during cell retrieval: ")>>
                       \o ConnectFailedText("get_all_cells"))
  ELSE Outcome(cs, [k \in DOMAIN cs |->
                      [index |-> k - 1,
                       cell_type |-> cs[k].cell_type,
                       source |-> cs[k].source,
                       execution_count |->
                         IF cs[k].cell_type = "code" THEN cs[k].execution_count
                                                     ELSE None]])

\* get_all_outputs(): for every code cell its index and its output texts, or
\* "[No output]" / "[Not executed]".
get_all_outputs(cs, conn) ==
  IF ~conn
  THEN Unconnected(cs, <<[index |-> -1,
                          text |-> <<"[Error retrieving outputs: ">>]>>)
  ELSE
    LET code_cells == SelectSeq([k \in DOMAIN cs |-> k - 1],
                                LAMBDA i : IsCodeCell(At(cs, i)))
        output_str(i) ==
          LET outputs == At(cs, i).outputs
              output_texts == [k \in DOMAIN outputs |-> extract_output(outputs[k])]
          IN  IF outputs # <<>>
              THEN IF \A k \in DOMAIN output_texts : output_texts[k] = ""
                   THEN <<"[No output]">> ELSE output_texts
              ELSE IF At(cs, i).execution_count # None
                   THEN <<"[No output]">> ELSE <<"[Not executed]">>
    IN  Outcome(cs, [k \in DOMAIN code_cells |->
                       [index |-> code_cells[k], text |-> output_str(code_cells[k])]])

\* How entering notebook_connection ends: the client is started and synced;
\* NbModelClient(...) raises; notebook.start() raises; or
\* notebook.wait_until_synced() raises with the client running.
ConnOutcomes == {"ok", "no_client", "start_failed", "sync_failed"}

\* The tools that enter notebook_connection with modify=True, and those that
\* enter it with modify=False.
ModifyingTools ==
  {"add_cell", "add_code_cell_on_bottom", "delete_cell", "move_cell",
   "split_cell", "edit_cell_source"}

ReadingTools ==
  {"execute_cell", "get_cell_output", "get_all_cells", "get_all_outputs"}

\* Variant: only a client that was synced counts as running.
RunTaskRunning_synced_only(how) == how = "ok"

\* "run_task and not run_task.done()" in the finally clause: the client's run
\* task exists once start() has returned.
RunTaskRunning(how) == how \in {"ok", "sync_failed"}

\* Variant: the delay is applied whatever the modify flag.
SyncDelay_always(modify) == <<"delay">>

\* "if modify: await asyncio.sleep(MODIFY_SYNC_DELAY)"
SyncDelay(modify) == IF modify THEN <<"delay">> ELSE <<>>

\* The events of one notebook_connection scope, in order; body: the events of
\* the "async with" block, which is entered only after the sync.
notebook_connection(modify, how, body) ==
  LET notebook == how # "no_client"
      entered ==
        CASE how = "ok" -> <<"start", "synced">> \o body
          [] how = "sync_failed" -> <<"start", "sync_failed">>
          [] how = "start_failed" -> <<"start_failed">>
          [] OTHER -> <<>>
      closing ==
        IF notebook
        THEN SyncDelay(modify)
             \o (IF RunTaskRunning(how) THEN <<"stop">> ELSE <<>>)
        ELSE <<>>
  IN  entered \o closing

\* The events inside the "async with" block of a tool, by the path on which
\* the tool left it.
body_events(path) ==
  CASE path = "mutated" -> <<"mutate">>
    [] path = "raised" -> <<"mutate", "raise">>
    [] path = "dispatched" -> <<"dispatch">>
    [] OTHER -> <<>>

\* The events of one tool call, in order, up to its return.
tool_events(op, how, out) ==
  (IF out.restarts > 0 THEN <<"restart">> ELSE <<>>)
  \o (IF out.path = "refused"
      THEN <<>>
      ELSE notebook_connection(op \in ModifyingTools, how, body_events(out.path)))
  \o <<"return">>

\* The call record of a tool call with the events of its connection scope.
ConnCall(op, args, how, pre, out) ==
  [op |-> op, args |-> args, pre |-> pre, ret |-> out.ret,
   dispatched |-> out.dispatched, path |-> out.path, restarts |-> out.restarts,
   how |-> how, events |-> tool_events(op, how, out)]

\* A tool call as one step, its connection scope included.
ToolStep(op, args, how, out) ==
  /\ Idle
  /\ Len(out.cells) <= MaxCells
  /\ cells' = out.cells
  /\ last' = ConnCall(op, args, how, cells, out)
  /\ UNCHANGED run

\* The text given to the tools that take one: the empty text, which split_cell
\* splits into two empty texts.
ConnContent == <<>>

ConnAddCell ==
  \E cell_type \in CellTypeArgs, index \in OptIndexArgs, how \in ConnOutcomes :
    /\ ToolStep("add_cell",
                [content |-> ConnContent, cell_type |-> cell_type, index |-> index],
                how, add_cell(cells, ConnContent, cell_type, index, how = "ok"))
    /\ UNCHANGED kernelAlive

ConnAddCodeCellOnBottom ==
  \E how \in ConnOutcomes :
    /\ ToolStep("add_code_cell_on_bottom", [cell_content |-> ConnContent], how,
                add_code_cell_on_bottom(cells, ConnContent, how = "ok"))
    /\ UNCHANGED kernelAlive

ConnDeleteCell ==
  \E cell_index \in IndexArgs, how \in ConnOutcomes :
    /\ ToolStep("delete_cell", [cell_index |-> cell_index], how,
                delete_cell(cells, cell_index, how = "ok"))
    /\ UNCHANGED kernelAlive

ConnMoveCell ==
  \E from_index \in IndexArgs, to_index \in IndexArgs, how \in ConnOutcomes :
    /\ ToolStep("move_cell",
                [from_index |-> from_index, to_index |-> to_index], how,
                move_cell(cells, from_index, to_index, how = "ok"))
    /\ UNCHANGED kernelAlive

ConnSplitCell ==
  \E cell_index \in IndexArgs, line_number \in LineArgs, how \in ConnOutcomes :
    /\ ToolStep("split_cell",
                [cell_index |-> cell_index, line_number |-> line_number], how,
                split_cell(cells, cell_index, line_number, how = "ok"))
    /\ UNCHANGED kernelAlive

ConnEditCellSource ==
  \E cell_index \in IndexArgs, how \in ConnOutcomes :
    /\ ToolStep("edit_cell_source",
                [cell_index |-> cell_index, new_content |-> ConnContent], how,
                edit_cell_source(cells, cell_index, ConnContent, how = "ok"))
    /\ UNCHANGED kernelAlive

ConnExecuteCell ==
  \E cell_index \in IndexArgs,
     restart_ok \in (IF kernelAlive THEN {TRUE} ELSE BOOLEAN),
     how \in ConnOutcomes, dispatch_ok \in BOOLEAN :
    LET out == execute_cell(cells, cell_index, kernelAlive, restart_ok,
                            how = "ok", dispatch_ok)
    IN  /\ ToolStep("execute_cell",
                    [cell_index |-> cell_index, alive |-> kernelAlive,
                     restart_ok |-> restart_ok, dispatch_ok |-> dispatch_ok],
                    how, out)
        /\ kernelAlive' = out.alive

ConnGetCellOutput ==
  \E cell_index \in IndexArgs, how \in ConnOutcomes :
    /\ ToolStep("get_cell_output", [cell_index |-> cell_index], how,
                get_cell_output(cells, cell_index, how = "ok"))
    /\ UNCHANGED kernelAlive

ConnGetAllCells ==
  \E how \in ConnOutcomes :
    /\ ToolStep("get_all_cells", <<>>, how, get_all_cells(cells, how = "ok"))
    /\ UNCHANGED kernelAlive

ConnGetAllOutputs ==
  \E how \in ConnOutcomes :
    /\ ToolStep("get_all_outputs", <<>>, how, get_all_outputs(cells, how = "ok"))
    /\ UNCHANGED kernelAlive

\* The tools of the notebook, each call with the events of its connection
\* scope, on a notebook that starts empty; the kernel client can be lost.
NextConn ==
  \/ ConnAddCell
  \/ ConnAddCodeCellOnBottom
  \/ ConnDeleteCell
  \/ ConnMoveCell
  \/ ConnSplitCell
  \/ ConnEditCellSource
  \/ ConnExecuteCell
  \/ ConnGetCellOutput
  \/ ConnGetAllCells
  \/ ConnGetAllOutputs
  \/ KernelDies
  \/ Respond

SpecConn == Init /\ [][NextConn]_vars

\* ------------------------------------------------------ shared notebook
\* A temporary-cell run has added its cell and not yet called execute_cell,
\* and the notebook is still as the add left it: the other client's change
\* comes between two tool calls of the run, each of which has a connection of
\* its own.
RunJustAdded ==
  /\ run.pc = "exec"
  /\ last.op = "add_code_cell_on_bottom"
  /\ cells = Append(run.before, NewCodeCell(last.args.cell_content))

\* Another client of the shared document inserts a cell; the change reaches
\* the run's next connection with its sync.
CollaboratorInserts ==
  \E index \in 0 .. Len(cells) :
    /\ RunJustAdded
    /\ Len(cells) < MaxCells
    /\ cells' = ArrInsert(cells, index, NewMarkdownCell(<<"c">>))
    /\ UNCHANGED <<kernelAlive, last, run>>

\* Another client of the shared document deletes a cell.
CollaboratorDeletes ==
  \E index \in 0 .. (Len(cells) - 1) :
    /\ RunJustAdded
    /\ cells' = ArrDelete(cells, index)
    /\ UNCHANGED <<kernelAlive, last, run>>

\* Temporary-cell runs on a notebook that another client edits meanwhile.
NextShared ==
  \/ RunAdd
  \/ RunExecute
  \/ RunWait
  \/ RunRead
  \/ RunCleanup
  \/ RunReturn
  \/ CollaboratorInserts
  \/ CollaboratorDeletes

SpecShared == InitRun /\ [][NextShared]_vars

\* ------------------------------------------------------------------ claims
\* A temporary-cell run has returned and its temporary cell had been added.
RunDoneWithCell == run.pc = "done" /\ run.cell_index # None

\* C1 as stated: with no other writer, when a temporary-cell run that added
\* its cell returns, the notebook's cells equal the cells before the call,
\* whether the run returned output or an error.
C1_CellsRestored == RunDoneWithCell => cells = run.before

\* C1, amended: when a temporary-cell run that added its cell returns, the
\* cleanup delete_cell was the last tool call; if its notebook connection was
\* established the cells equal the cells before the call, and if it was not,
\* the cells are the cells before the call followed by the temporary cell.
C1_RestoredWhenCleanupConnects ==
  RunDoneWithCell =>
    /\ last.op = "delete_cell"
    /\ last.args.cell_index = Len(run.before)
    /\ last.args.conn => cells = run.before
    /\ ~last.args.conn =>
         /\ Len(cells) = Len(run.before) + 1
         /\ SubSeq(cells, 1, Len(run.before)) = run.before
         /\ cells[Len(cells)].cell_type = "code"
         /\ cells[Len(cells)].source \in
              { code_content(run.tool, pn) : pn \in PackageNames }

\* C1 witness: a run on a notebook of two cells failed to execute its cell
\* (an error result) and its cleanup went through.
C1_Witness ==
  /\ RunDoneWithCell
  /\ Len(run.before) = 2
  /\ HasError(run.result)
  /\ last.args.conn
  /\ cells = run.before

\* C2: in every temporary-cell run the steps are ordered add, execute, wait,
\* read, delete: execute comes second, after an add that yielded an index;
\* wait directly follows execute; read directly follows wait; delete is the
\* last step and follows the read or a failed run; a run that added its cell
\* does not return before the delete.
C2_StepOrder ==
  LET st == run.steps
  IN  /\ \A i \in DOMAIN st :
           /\ st[i] = "add" => i = 1
           /\ st[i] = "execute" => i = 2 /\ st[1] = "add" /\ run.cell_index # None
           /\ st[i] = "wait" => i > 1 /\ st[i - 1] = "execute"
           /\ st[i] = "read" => i > 1 /\ st[i - 1] = "wait"
           /\ st[i] = "delete" =>
                /\ i = Len(st)
                /\ i > 1
                /\ st[i - 1] = "read" \/ HasError(run.result)
      /\ RunDoneWithCell => st # <<>> /\ st[Len(st)] = "delete"

\* C2 witness: a run went through all five steps.
C2_Witness ==
  /\ run.pc = "done"
  /\ run.steps = <<"add", "execute", "wait", "read", "delete">>
  /\ ~HasError(run.result)

\* post is pre with one element inserted at 0-based position pos.
InsertedAt(pre, post, pos) ==
  /\ Len(post) = Len(pre) + 1
  /\ 0 <= pos /\ pos <= Len(pre)
  /\ \A i \in 1 .. Len(pre) : pre[i] = post[IF i <= pos THEN i ELSE i + 1]

\* seq without its element at 0-based position pos.
Without(seq, pos) ==
  [j \in 1 .. (Len(seq) - 1) |-> IF j <= pos THEN seq[j] ELSE seq[j + 1]]

\* The last tool call was op and did not return an error string.
Succeeded(op) == last.op = op /\ ~HasError(last.ret)

\* C3: add_cell and add_cell_create_clickzetta_session, when they succeed,
\* insert the new cell at the given index if 0 <= index <= number of cells and
\* at the end if the index is None, negative or too large; the count grows by
\* one, the existing cells keep their order, the message names the position
\* of the new cell; a call with an accepted cell type succeeds once connected.
C3_AddInsertsAtIndex ==
  last.op \in {"add_cell", "add_cell_create_clickzetta_session"} =>
    LET n == Len(last.pre)
        ix == last.args.index
        pos == IF ix # None /\ 0 <= ix[1] /\ ix[1] <= n THEN ix[1] ELSE n
        accepted == IF last.op = "add_cell"
                    THEN last.args.cell_type \in {"code", "markdown"}
                    ELSE last.args.cell_type = "code"
    IN  /\ (last.args.conn /\ accepted) => ~HasError(last.ret)
        /\ ~HasError(last.ret) =>
             /\ InsertedAt(last.pre, cells, pos)
             /\ cells[pos + 1].cell_type = last.args.cell_type
             /\ _parse_index_from_message(last.ret) = Some(pos)

\* C3 witness: add_cell put a new cell between two different cells.
C3_Witness ==
  /\ Succeeded("add_cell")
  /\ Len(last.pre) = 2
  /\ last.pre[1] # last.pre[2]
  /\ last.args.index = Some(1)
  /\ cells[2] # last.pre[1]
  /\ cells[2] # last.pre[2]

\* Number of lines of a source text: its line breaks, plus one for a last
\* line without a break.
LineCount(text) ==
  Cardinality({ i \in DOMAIN text : text[i] = "\n" })
    + (IF text # <<>> /\ text[Len(text)] # "\n" THEN 1 ELSE 0)

\* The last call's parameters fail the tool's validation.
ValidationFails ==
  LET n == Len(last.pre)
      OutOfBounds(i) == ~(0 <= i /\ i < n)
  IN  \/ /\ last.op \in {"delete_cell", "edit_cell_source", "split_cell"}
         /\ OutOfBounds(last.args.cell_index)
      \/ /\ last.op = "move_cell"
         /\ \/ OutOfBounds(last.args.from_index)
            \/ ~(0 <= last.args.to_index /\ last.args.to_index <= n)
      \/ /\ last.op = "split_cell"
         /\ \/ last.args.line_number < 1
            \/ /\ ~OutOfBounds(last.args.cell_index)
               /\ last.args.line_number >
                    LineCount(last.pre[last.args.cell_index + 1].source) + 1
      \/ /\ last.op = "add_cell"
         /\ last.args.cell_type \notin {"code", "markdown"}

\* C4: when an editing tool's parameter validation fails, the tool returns an
\* "[Error ..." string and the cells are unchanged.
C4_ValidationFailureChangesNothing ==
  ValidationFails => HasError(last.ret) /\ cells = last.pre

\* C4 witness: on a connected notebook split_cell was given a line number
\* beyond the last line + 1 of an existing cell.
C4_Witness ==
  /\ last.op = "split_cell"
  /\ last.args.conn
  /\ Len(last.pre) = 2
  /\ last.args.cell_index = 1
  /\ last.args.line_number >= 1
  /\ ValidationFails

\* C5: a successful delete_cell had an index inside the notebook and removed
\* exactly the cell at that index, the others keeping their order; a connected
\* call with such an index succeeds.
C5_DeleteRemovesExactlyThatCell ==
  last.op = "delete_cell" =>
    LET n == Len(last.pre)
        i == last.args.cell_index
    IN  /\ (last.args.conn /\ 0 <= i /\ i < n) => ~HasError(last.ret)
        /\ ~HasError(last.ret) =>
             /\ 0 <= i /\ i < n
             /\ Len(cells) = n - 1
             /\ InsertedAt(cells, last.pre, i)

\* C5 witness: the middle one of three cells, different from its neighbours,
\* was deleted.
C5_Witness ==
  /\ Succeeded("delete_cell")
  /\ Len(last.pre) = 3
  /\ last.args.cell_index = 1
  /\ last.pre[2] # last.pre[1]
  /\ last.pre[2] # last.pre[3]

C7_MoveToEndSucceeds ==
  LET n == Len(last.pre)
  IN  ( /\ last.op = "move_cell"
        /\ last.args.conn
        /\ 0 <= last.args.from_index /\ last.args.from_index < n
        /\ last.args.to_index = n )
      => /\ ~HasError(last.ret)
         /\ Len(cells) = n
         /\ cells[n] = last.pre[last.args.from_index + 1]

\* C8: for every cell and every line_number from 1 to its number of lines + 1,
\* split_cell on a connected notebook succeeds and leaves at cell_index and
\* cell_index + 1 two cells of the original type whose sources concatenate to
\* the original source, the first holding the line_number - 1 lines before
\* line_number; the count grows by one and every other cell is unchanged and
\* keeps its order.
C8_SplitKeepsSource ==
  LET n == Len(last.pre)
      i == last.args.cell_index
      k == last.args.line_number
  IN  ( /\ last.op = "split_cell"
        /\ last.args.conn
        /\ 0 <= i /\ i < n
        /\ 1 <= k /\ k <= LineCount(last.pre[i + 1].source) + 1 )
      => LET original == last.pre[i + 1]
             first == cells[i + 1]
             second == cells[i + 2]
         IN  /\ ~HasError(last.ret)
             /\ Len(cells) = n + 1
             /\ first.cell_type = original.cell_type
             /\ second.cell_type = original.cell_type
             /\ first.source \o second.source = original.source
             /\ LineCount(first.source) = k - 1
             /\ \/ first.source = <<>>
                \/ first.source[Len(first.source)] = "\n"
                \/ second.source = <<>>
             /\ \A j \in 1 .. i : cells[j] = last.pre[j]
             /\ \A j \in (i + 2) .. n : cells[j + 1] = last.pre[j]

\* C8 witness: a two-line cell followed by another cell was split at line 2,
\* both parts non-empty.
C8_Witness ==
  /\ Succeeded("split_cell")
  /\ Len(last.pre) = 2
  /\ last.args.cell_index = 0
  /\ last.args.line_number = 2
  /\ cells[1].source # <<>>
  /\ cells[2].source # <<>>

\* C9: a successful edit_cell_source makes the source of the cell at
\* cell_index the new content and leaves the count, the cell's type, outputs
\* and execution count, and every other cell unchanged.
C9_EditChangesOnlySource ==
  Succeeded("edit_cell_source") =>
    LET i == last.args.cell_index
    IN  /\ 0 <= i /\ i < Len(last.pre)
        /\ Len(cells) = Len(last.pre)
        /\ cells[i + 1].source = last.args.new_content
        /\ cells[i + 1].cell_type = last.pre[i + 1].cell_type
        /\ cells[i + 1].outputs = last.pre[i + 1].outputs
        /\ cells[i + 1].execution_count = last.pre[i + 1].execution_count
        /\ \A j \in DOMAIN cells : j # i + 1 => cells[j] = last.pre[j]

\* C9 witness: the source of an executed cell with outputs, one of several
\* cells, was changed.
C9_Witness ==
  /\ Succeeded("edit_cell_source")
  /\ Len(last.pre) = 3
  /\ last.pre[last.args.cell_index + 1].outputs # <<>>
  /\ last.pre[last.args.cell_index + 1].execution_count # None
  /\ last.pre[last.args.cell_index + 1].source # last.args.new_content

\* C10: execute_cell dispatches an execution request only for a cell_index
\* inside the notebook whose cell is a code cell, and then for that index; for
\* an index out of bounds or a cell that is not a code cell it returns an
\* error string and dispatches nothing.
C10_DispatchOnlyForCodeCellInBounds ==
  last.op = "execute_cell" =>
    LET i == last.args.cell_index
        valid == /\ 0 <= i /\ i < Len(last.pre)
                 /\ last.pre[i + 1].cell_type = "code"
    IN  /\ last.dispatched # <<>> => valid /\ last.dispatched = <<i>>
        /\ ~valid => HasError(last.ret) /\ last.dispatched = <<>>

\* C10 witness: with a live kernel client and a connected notebook,
\* execute_cell was called on a markdown cell that follows a code cell.
C10_Witness ==
  /\ last.op = "execute_cell"
  /\ last.args.alive
  /\ last.args.conn
  /\ Len(last.pre) >= 2
  /\ last.args.cell_index = 1
  /\ last.pre[1].cell_type = "code"
  /\ last.pre[2].cell_type = "markdown"
  /\ last.dispatched = <<>>

\* The message is one of the two kernel-connection errors.
KernelConnectionError(msg) ==
  /\ HasError(msg)
  /\ \E i \in DOMAIN msg :
       msg[i].s \in {": Kernel client connection failed for cell ",
                     ": Kernel client connection failed. Cannot execute cells.]"}

\* What C11 asks of one kernel check, given the client's state on entry
\* (alive), whether a restarted client comes up alive (restart_ok), and what
\* the call did.
KernelCheckObeyed(alive, restart_ok, c) ==
  /\ c.restarts = (IF alive THEN 0 ELSE 1)
  /\ (~alive /\ ~restart_ok) =>
       /\ KernelConnectionError(c.ret)
       /\ c.path = "refused"
       /\ c.dispatched = <<>>
  /\ c.dispatched # <<>> => (alive \/ restart_ok)

\* C11: execute_cell and execute_all_cells (and every execute_cell call made
\* by execute_all_cells) start a new kernel client exactly once when the
\* client is missing or not alive on entry, and never otherwise; when the new
\* client is not alive either, the call returns a kernel-connection error
\* without entering a notebook connection, without dispatching an execution
\* and without starting its loop, and the notebook is left as it was.
C11_DeadKernelRefused ==
  /\ last.op \in {"execute_cell", "execute_all_cells"} =>
       /\ KernelCheckObeyed(last.args.alive, last.args.restart_ok, last)
       /\ (~last.args.alive /\ ~last.args.restart_ok) => cells = last.pre
  /\ last.op = "execute_all_cells" =>
       /\ (~last.args.alive /\ ~last.args.restart_ok) => last.calls = <<>>
       /\ \A k \in DOMAIN last.calls :
            KernelCheckObeyed(last.calls[k].alive, last.calls[k].restart_ok,
                              last.calls[k])

\* C11 witness: both tools were refused on a dead kernel whose restart
\* failed, with code cells in the notebook; the state shown is the refused
\* execute_all_cells call on a notebook that starts with a code cell.
C11_Witness ==
  /\ last.op = "execute_all_cells"
  /\ ~last.args.alive
  /\ ~last.args.restart_ok
  /\ last.pre # <<>>
  /\ IsCodeCell(last.pre[1])
  /\ KernelConnectionError(last.ret)

\* The indexes of the code cells of a notebook, in ascending order.
CodeCellIndexes(cs) ==
  LET IsCode(i) == cs[i + 1].cell_type = "code"
  IN  SelectSeq([k \in 1 .. Len(cs) |-> k - 1], IsCode)

\* An execute_all_cells call that has run its loop to the end.
AllCellsLooped == last.op = "execute_all_cells" /\ last.path = "returned"

ReportsAllSent(msg) ==
  /\ Len(msg) = 3
  /\ msg[1].s = "Successfully sent execution requests for all "
  /\ msg[2].n # <<>>

\* C13 as stated: whenever execute_all_cells returns "Successfully sent
\* execution requests for all N code cells found.", N is the number of code
\* cells of the notebook and an execution request was dispatched for each of
\* them.
C13_SuccessMeansAllDispatched ==
  (last.op = "execute_all_cells" /\ ReportsAllSent(last.ret)) =>
    /\ last.ret[2].n[1] = Len(CodeCellIndexes(last.pre))
    /\ \A k \in DOMAIN CodeCellIndexes(last.pre) :
         \E j \in DOMAIN last.dispatched :
           last.dispatched[j] = CodeCellIndexes(last.pre)[k]

\* The number of places of a sequence of events that hold the event e.
Count(events, e) == Cardinality({ i \in DOMAIN events : events[i] = e })

\* The client started at place i of the events is stopped at a later place,
\* before the last one (the return).
StoppedAfter(events, i) ==
  \E j \in (i + 1) .. (Len(events) - 1) : events[j] = "stop"

C15_MutateDelayStopReturn ==
  /\ (last.op \in ModifyingTools /\ ~HasError(last.ret)) =>
       IF last.path = "mutated"
       THEN last.events = <<"start", "synced", "mutate", "delay", "stop", "return">>
       ELSE /\ last.op = "move_cell"
            /\ last.args.from_index = last.args.to_index
            /\ last.events = <<"start", "synced", "delay", "stop", "return">>
  /\ last.op \in ReadingTools =>
       /\ Count(last.events, "delay") = 0
       /\ \A i \in DOMAIN last.events :
            last.events[i] = "start" => StoppedAfter(last.events, i)

\* C15 witness: a delete_cell call that removed a cell.
C15_Witness ==
  /\ last.op = "delete_cell"
  /\ last.path = "mutated"
  /\ Len(cells) < Len(last.pre)
  /\ Count(last.events, "delay") = 1

\* C16 as stated: what the other clients of the notebook see after a
\* move_cell or split_cell call is either the notebook as it was or the
\* notebook with the whole change: never a move with the cell deleted and not
\* inserted again, never a split without its new cell.
C16_NoIntermediateStateVisible ==
  /\ last.op = "move_cell" =>
       \/ cells = last.pre
       \/ /\ Len(cells) = Len(last.pre)
          /\ cells[last.args.to_index + 1] = last.pre[last.args.from_index + 1]
  /\ last.op = "split_cell" =>
       \/ cells = last.pre
       \/ Len(cells) = Len(last.pre) + 1

\* The cell is the temporary cell of some run.
IsTemporaryCell(cell) ==
  /\ cell.cell_type = "code"
  /\ \E t \in TempTools, pk \in PackageNames : cell.source = code_content(t, pk)

\* C17 as stated: with another client inserting or deleting cells while a run
\* is under way, the cell the run gets executed and the cell its cleanup
\* deletes are the temporary cell.
C17_RunActsOnTemporaryCell ==
  (run.pc # "idle" /\ last.op \in {"execute_cell", "delete_cell"}) =>
    /\ last.dispatched # <<>> =>
         IsTemporaryCell(last.pre[last.args.cell_index + 1])
    /\ last.path = "mutated" =>
         IsTemporaryCell(last.pre[last.args.cell_index + 1])

====
